---- MODULE Spec2Model ----
(***************************************************************************)
(* Snippetly VS Code extension: the Save Policy (saveCommand), the Sync    *)
(* Reconciler (StorageService.syncWithAPI / syncCommand) and deletion      *)
(* (deleteCommand), over the persisted "snippets" slot of globalState and  *)
(* the remote snippet service.                                             *)
(*                                                                         *)
(* Every action is one synchronous run of a command between two awaits.    *)
(* A remote call (api.saveSnippet, api.deleteSnippet) and a write of the   *)
(* persisted slot (globalState.update) each resolve or reject; which one   *)
(* happens is an input of the action.                                      *)
(***************************************************************************)
EXTENDS Integers, Sequences, FiniteSets, TLC

\* ---- bounds of the model ----
InitLen == 3          \* longest persisted sequence at activation
MaxOps == 3           \* commands invoked after activation
MaxStoreFails == 1    \* globalState.update rejections in one behaviour
MaxStatus == 599      \* largest response status
StatusOk == 200       \* first status of the success range
StatusRedirect == 300 \* first status after the success range

Procs == {1, 2}       \* command invocations that can be in flight
SerialProcs == {1}    \* the host runs one user command at a time (spec 5)

TitleInputs == {"", " ", "a"}   \* what the title input box is given
Variants == {"api", "basic"}    \* the extension of part_000 / of extension.ts

VARIABLES
  variant,    \* which of the two activate() functions is running
  useAPI,     \* config.get("useAPI"), read once in activate
  store,      \* globalState "snippets": the persisted sequence
  remote,     \* records held by the remote service: [id, cap]
  nextId,     \* next identity the remote service assigns
  nextCap,    \* next capture number (stands for code, language, createdAt)
  pc,         \* per invocation: where the command is suspended
  op,         \* per invocation: the command last started
  phase,      \* saveCommand: "try" (lines 238-261) or "catch" (262-268)
  snippet,    \* saveCommand: the snippet built at lines 229-236
  arg,        \* saveLocally: its parameter
  local,      \* the in-memory array (snippets / localSnippets)
  pending,    \* syncWithAPI: unsyncedSnippets not yet iterated
  selected,   \* deleteCommand: selected.snippet
  outcome,    \* per invocation: what the command reported last
  log,        \* per invocation: the remote calls of the current command
  pre,        \* per invocation: the persisted sequence the command started on
  writes,     \* per invocation: globalState.update calls of the command
  storeErr,   \* per invocation: some globalState.update of the command rejected
  storeFails, \* globalState.update rejections so far
  fatalSeen,  \* some command has ended by raising an error to its caller
  prevSync,   \* summary of the sync that completed last, if nothing ran since
  ops,        \* commands invoked so far (-1: the commands are not counted)
  during,     \* per invocation: the invocations suspended when it started
  title,      \* saveCommand: what the title input box returned ("": nothing)
  request,    \* makeRequest: what the transport and the server do with a request
  response    \* makeRequest: how its promise settled

vars == <<variant, useAPI, store, remote, nextId, nextCap, pc, op, phase, snippet,
          arg, local, pending, selected, outcome, log, pre, writes, storeErr,
          storeFails, fatalSeen, prevSync, ops, during, title, request,
          response>>

\* statuses and bodies a response can carry (0: no status code)
Statuses == 0..MaxStatus
Bodies == {"", "{\"id\":4}", "7", "<html>"}

\* ---- data ----
NoSnippet == [cap |-> 0, title |-> "", id |-> 0]
NoObj == [obj |-> 0, val |-> NoSnippet]
NoSync == [ran |-> FALSE, allOk |-> FALSE, left |-> {}]
NoRequest == [fails |-> FALSE, status |-> 0, body |-> ""]
\* the values a request resolves or rejects with
Null == [kind |-> "null", id |-> 0, text |-> ""]
JsonObject(i) == [kind |-> "object", id |-> i, text |-> ""]
JsonNumber(i) == [kind |-> "number", id |-> i, text |-> ""]
Text(t) == [kind |-> "string", id |-> 0, text |-> t]
Failure(code, t) == [kind |-> "error", id |-> code, text |-> t]
NoResponse == [settled |-> "none", value |-> Null]

\* interface Snippet: id absent is id = 0
Snippet(c, t, i) == [cap |-> c, title |-> t, id |-> i]

\* An element of an in-memory array: obj is the object's reference (indexOf
\* compares references), obj = 0 for an object built after the array was read.
Obj(k, s) == [obj |-> k, val |-> s]

\* globalState.get("snippets", []): every slot is an object of its own
GetLocalSnippets(seq) == [k \in 1..Len(seq) |-> Obj(k, seq[k])]

\* what globalState.update persists of an in-memory array
Persisted(arr) == [k \in 1..Len(arr) |-> arr[k].val]

\* a slip: the slot is looked up by content, as findIndex on title and id
IndexOfByContent(arr, o) ==
  IF \E k \in 1..Len(arr) :
       arr[k].val.title = o.val.title /\ arr[k].val.id = o.val.id
  THEN CHOOSE k \in 1..Len(arr) :
         /\ arr[k].val.title = o.val.title /\ arr[k].val.id = o.val.id
         /\ \A j \in 1..(k - 1) :
              ~(arr[j].val.title = o.val.title /\ arr[j].val.id = o.val.id)
  ELSE 0

\* Array.prototype.indexOf: first slot holding the same reference, 0 for -1
IndexOf(arr, o) ==
  IF \E k \in 1..Len(arr) : arr[k].obj = o.obj
  THEN CHOOSE k \in 1..Len(arr) :
         /\ arr[k].obj = o.obj
         /\ \A j \in 1..(k - 1) : arr[j].obj # o.obj
  ELSE 0

\* a slip: the slot is removed and the new element pushed at the end
SetAtMoveToEnd(arr, index, x) ==
  IF index = 0 THEN arr
  ELSE Append([j \in 1..(Len(arr) - 1) |-> IF j < index THEN arr[j] ELSE arr[j + 1]], x)

\* arr[index] = x (an index of -1 sets no element)
SetAt(arr, index, x) == IF index = 0 THEN arr ELSE [arr EXCEPT ![index] = x]

\* arr.splice(index, 1); splice(-1, 1) removes the last element
Splice(arr, index) ==
  LET k == IF index = 0 THEN Len(arr) ELSE index
  IN  IF Len(arr) = 0 THEN arr
      ELSE [j \in 1..(Len(arr) - 1) |-> IF j < k THEN arr[j] ELSE arr[j + 1]]

\* a slip: the filter (s) => s.id === null, which an absent id never passes
UnsyncedNull(arr) == SelectSeq(arr, LAMBDA e : FALSE)

\* a slip: no filter, every local snippet is submitted
UnsyncedAll(arr) == arr

\* localSnippets.filter((s) => !s.id)
Unsynced(arr) == SelectSeq(arr, LAMBDA e : e.val.id = 0)

\* a slip: no check of the title
TitleAcceptedAny(v, t) == TRUE

\* the title checks of saveCommand: validateInput (part_000 198-203) keeps the
\* box open on a blank title, and a cancelled or empty box returns (206-208);
\* extension.ts has only the second check (34-36)
TitleAccepted(v, t) ==
  IF v = "api" THEN t # "" /\ t # " " ELSE t # ""

\* ---- initial states ----
InitStores ==
  UNION {[1..n -> {0, 1}] : n \in 0..InitLen}

InitStore(f) == [k \in DOMAIN f |-> Snippet(k, "a", IF f[k] = 1 THEN k ELSE 0)]

\* no command has been invoked yet
NoCommand ==
  /\ pc = [p \in Procs |-> "idle"]
  /\ op = [p \in Procs |-> "none"]
  /\ phase = [p \in Procs |-> "try"]
  /\ snippet = [p \in Procs |-> NoSnippet]
  /\ arg = [p \in Procs |-> NoSnippet]
  /\ local = [p \in Procs |-> <<>>]
  /\ pending = [p \in Procs |-> <<>>]
  /\ selected = [p \in Procs |-> NoObj]
  /\ outcome = [p \in Procs |-> "none"]
  /\ log = [p \in Procs |-> <<>>]
  /\ pre = [p \in Procs |-> <<>>]
  /\ writes = [p \in Procs |-> 0]
  /\ storeErr = [p \in Procs |-> FALSE]
  /\ title = [p \in Procs |-> ""]
  /\ during = [p \in Procs |-> {}]
  /\ storeFails = 0
  /\ fatalSeen = FALSE
  /\ prevSync = NoSync

\* the persisted slot and the remote service as earlier sessions left them
Stores ==
  \E f \in InitStores :
    /\ store = InitStore(f)
    /\ remote = {[id |-> k, cap |-> k] : k \in {j \in DOMAIN f : f[j] = 1}}
    /\ variant = "basic" => \A k \in DOMAIN f : f[k] = 0
    /\ nextId = InitLen + 1
    /\ nextCap = InitLen + 1

Init ==
  /\ variant \in Variants
  /\ useAPI \in BOOLEAN
  /\ variant = "basic" => useAPI = FALSE
  /\ Stores
  /\ NoCommand
  /\ ops = 0
  /\ request = NoRequest
  /\ response = NoResponse


\* ---- bookkeeping shared by the commands ----
Set(f, p, v) == [f EXCEPT ![p] = v]

\* a command starts: nothing of an earlier command is left in its record
Begin(p, name) ==
  /\ ops < MaxOps
  /\ ops' = IF ops < 0 THEN ops ELSE ops + 1
  /\ op' = Set(op, p, name)
  /\ pre' = Set(pre, p, store)
  /\ log' = Set(log, p, <<>>)
  /\ writes' = Set(writes, p, 0)
  /\ storeErr' = Set(storeErr, p, FALSE)
  /\ during' = [q \in Procs |-> IF q = p
                                THEN {r \in Procs \ {p} : pc[r] # "idle"}
                                ELSE during[q] \ {p}]

\* one remote call of the current command
Call(kind, o, s, ok, rid) ==
  [call |-> kind, obj |-> o, cap |-> s.cap, sid |-> s.id, ok |-> ok, rid |-> rid]

\* POST /snippets answered 2xx: the server's representation of s, with its id
Created(s, i) == [s EXCEPT !.id = i]

CanFail == storeFails < MaxStoreFails

\* ---- Command 1: snippetly.saveSnippet ----

\* a slip: unshift where the code pushes
SaveLocallyUnshift(arr, s) == Persisted(<<Obj(0, s)>> \o arr)

\* StorageService.saveLocally after its read: push, then update persists the array
SaveLocally(arr, s) == Persisted(Append(arr, Obj(0, s)))

\* the message saveCommand shows once saveLocally has resolved
SaveOutcome(ph, api) ==
  IF ph = "catch" THEN "saved-local-fallback"
  ELSE IF api THEN "saved-remote-and-local"
  ELSE "saved-local"

\* the input boxes and the snippet literal, up to the first persistence call
SaveStart(p, t) ==
  LET ok == TitleAccepted(variant, t)
      s == Snippet(nextCap, t, 0)
      direct == ok /\ variant = "api" /\ ~useAPI
  IN  /\ pc[p] = "idle"
      /\ Begin(p, "save")
      /\ pc' = Set(pc, p, IF ~ok THEN "idle"
                          ELSE IF variant = "basic" THEN "basic_write"
                          ELSE IF useAPI THEN "save_create"
                          ELSE "save_write")
      /\ outcome' = Set(outcome, p, IF ok THEN "running" ELSE "cancelled")
      /\ snippet' = Set(snippet, p, IF ok THEN s ELSE NoSnippet)
      /\ nextCap' = IF ok THEN nextCap + 1 ELSE nextCap
      /\ phase' = Set(phase, p, "try")
      /\ arg' = Set(arg, p, IF direct THEN s ELSE NoSnippet)
      /\ local' = Set(local, p, IF direct THEN GetLocalSnippets(store) ELSE <<>>)
      /\ selected' = Set(selected, p, NoObj)
      /\ prevSync' = NoSync
      /\ pending' = Set(pending, p, <<>>)
      /\ title' = Set(title, p, IF ok THEN t ELSE "")
      /\ UNCHANGED <<variant, useAPI, store, remote, nextId, storeFails, fatalSeen,
                     request, response>>

\* a slip: no catch block, so that a create that throws ends the command
SaveCreateNoFallback(p, ok) ==
  /\ pc[p] = "save_create"
  /\ remote' = IF ok THEN remote \cup {[id |-> nextId, cap |-> snippet[p].cap]}
               ELSE remote
  /\ nextId' = IF ok THEN nextId + 1 ELSE nextId
  /\ log' = Set(log, p, Append(log[p],
                 Call("create", 0, snippet[p], ok, IF ok THEN nextId ELSE 0)))
  /\ arg' = Set(arg, p, IF ok THEN Created(snippet[p], nextId) ELSE snippet[p])
  /\ local' = Set(local, p, IF ok THEN GetLocalSnippets(store) ELSE <<>>)
  /\ pc' = Set(pc, p, IF ok THEN "save_write" ELSE "idle")
  /\ outcome' = Set(outcome, p, IF ok THEN "running" ELSE "fatal")
  /\ fatalSeen' = (fatalSeen \/ ~ok)
  /\ UNCHANGED <<ops, during, title, request, response, variant, useAPI, store, nextCap, op, phase, snippet, pending,
                 selected, pre, writes, storeErr, storeFails, prevSync>>

\* await api.saveSnippet(snippet) returns or throws (part_000 241-250); either
\* way saveLocally is entered next and reads the persisted sequence
SaveCreate(p, ok) ==
  /\ pc[p] = "save_create"
  /\ remote' = IF ok THEN remote \cup {[id |-> nextId, cap |-> snippet[p].cap]}
               ELSE remote
  /\ nextId' = IF ok THEN nextId + 1 ELSE nextId
  /\ log' = Set(log, p, Append(log[p],
                 Call("create", 0, snippet[p], ok, IF ok THEN nextId ELSE 0)))
  /\ phase' = Set(phase, p, IF ok THEN "try" ELSE "catch")
  /\ arg' = Set(arg, p, IF ok THEN Created(snippet[p], nextId) ELSE snippet[p])
  /\ local' = Set(local, p, GetLocalSnippets(store))
  /\ pc' = Set(pc, p, "save_write")
  /\ UNCHANGED <<ops, during, title, request, response, variant, useAPI, store, nextCap, op, snippet, pending, selected,
                 outcome, pre, writes, storeErr, storeFails, fatalSeen, prevSync>>

\* saveLocally: snippets.push(snippet); await globalState.update(...). A
\* rejection inside the try block lands in the catch block, which calls
\* saveLocally(snippet) again; a rejection inside the catch block leaves the
\* command.
SaveWrite(p, ok) ==
  LET again == ~ok /\ phase[p] = "try"
  IN  /\ pc[p] = "save_write"
      /\ ~ok => CanFail
      /\ store' = IF ok THEN SaveLocally(local[p], arg[p]) ELSE store
      /\ writes' = Set(writes, p, writes[p] + 1)
      /\ storeErr' = Set(storeErr, p, storeErr[p] \/ ~ok)
      /\ storeFails' = IF ok THEN storeFails ELSE storeFails + 1
      /\ phase' = Set(phase, p, IF again THEN "catch" ELSE phase[p])
      /\ arg' = Set(arg, p, IF again THEN snippet[p] ELSE arg[p])
      /\ local' = Set(local, p, IF again THEN GetLocalSnippets(store) ELSE <<>>)
      /\ pc' = Set(pc, p, IF again THEN "save_write" ELSE "idle")
      /\ outcome' = Set(outcome, p, IF ok THEN SaveOutcome(phase[p], useAPI)
                                    ELSE IF again THEN "running" ELSE "fatal")
      /\ fatalSeen' = (fatalSeen \/ (~ok /\ ~again))
      /\ UNCHANGED <<ops, during, title, request, response, variant, useAPI, remote, nextId, nextCap, op, snippet, pending,
                     selected, log, pre, prevSync>>

\* extension.ts 55-60: get, push and update with no try around them
BasicWrite(p, ok) ==
  /\ pc[p] = "basic_write"
  /\ ~ok => CanFail
  /\ store' = IF ok THEN Append(store, snippet[p]) ELSE store
  /\ writes' = Set(writes, p, writes[p] + 1)
  /\ storeErr' = Set(storeErr, p, storeErr[p] \/ ~ok)
  /\ storeFails' = IF ok THEN storeFails ELSE storeFails + 1
  /\ pc' = Set(pc, p, "idle")
  /\ outcome' = Set(outcome, p, IF ok THEN "saved-local" ELSE "fatal")
  /\ fatalSeen' = (fatalSeen \/ ~ok)
  /\ UNCHANGED <<ops, during, title, request, response, variant, useAPI, remote, nextId, nextCap, op, phase, snippet, arg,
                 local, pending, selected, log, pre, prevSync>>


\* ---- Command 2: snippetly.searchSnippets ----

\* what searchCommand shows for the list it got (301-306); picking an item and
\* inserting it touches the editor only
SearchOutcome(n) == IF n = 0 THEN "no-snippets" ELSE "listed"

\* a slip: the search goes to the API whatever useAPI says
SearchUsesRemoteAlways(v, api) == v = "api"

\* searchCommand asks the API only when useAPI is on (279); extension.ts has
\* no API at all
SearchUsesRemote(v, api) == v = "api" /\ api

\* searchCommand up to its first remote call: with useAPI off, and in
\* extension.ts (69-76), the list is the persisted sequence
SearchStart(p) ==
  LET far == SearchUsesRemote(variant, useAPI)
  IN  /\ pc[p] = "idle"
      /\ Begin(p, "search")
      /\ pc' = Set(pc, p, IF far THEN "search_remote" ELSE "idle")
      /\ outcome' = Set(outcome, p, IF far THEN "running" ELSE SearchOutcome(Len(store)))
      /\ local' = Set(local, p, <<>>)
      /\ pending' = Set(pending, p, <<>>)
      /\ selected' = Set(selected, p, NoObj)
      /\ snippet' = Set(snippet, p, NoSnippet)
      /\ arg' = Set(arg, p, NoSnippet)
      /\ phase' = Set(phase, p, "try")
      /\ title' = Set(title, p, "")
      /\ UNCHANGED <<variant, useAPI, store, remote, nextId, nextCap, storeFails,
                     fatalSeen, prevSync, request, response>>

\* api.searchSnippets(searchQuery) returns the remote collection, or throws
\* and the error message is shown (286-295, 338-340)
SearchRemote(p, ok) ==
  /\ pc[p] = "search_remote"
  /\ log' = Set(log, p, Append(log[p], Call("search", 0, NoSnippet, ok, 0)))
  /\ pc' = Set(pc, p, "idle")
  /\ outcome' = Set(outcome, p, IF ok THEN SearchOutcome(Cardinality(remote))
                                ELSE "search-failed")
  /\ UNCHANGED <<ops, during, title, request, response, variant, useAPI, store, remote,
                 nextId, nextCap, op, phase, snippet, arg, local, pending, selected,
                 pre, writes, storeErr, storeFails, fatalSeen, prevSync>>

\* ---- Command 3: snippetly.syncSnippets ----

\* the summary kept of a sync that resolved: did every create succeed, and
\* which captures are still without id in what it persisted
SyncSummary(calls, seq) ==
  [ran |-> TRUE,
   allOk |-> \A k \in 1..Len(calls) : calls[k].ok,
   left |-> {seq[k].cap : k \in {j \in 1..Len(seq) : seq[j].id = 0}}]

\* syncCommand up to the first await of syncWithAPI: the useAPI check
\* (348-353), getLocalSnippets and the filter (144-145)
SyncStart(p) ==
  LET arr == GetLocalSnippets(store)
  IN  /\ pc[p] = "idle"
      /\ variant = "api"
      /\ Begin(p, "sync")
      /\ pc' = Set(pc, p, IF useAPI THEN "sync_loop" ELSE "idle")
      /\ outcome' = Set(outcome, p, IF useAPI THEN "running" ELSE "sync-disabled")
      /\ local' = Set(local, p, IF useAPI THEN arr ELSE <<>>)
      /\ pending' = Set(pending, p, IF useAPI THEN Unsynced(arr) ELSE <<>>)
      /\ selected' = Set(selected, p, NoObj)
      /\ snippet' = Set(snippet, p, NoSnippet)
      /\ arg' = Set(arg, p, NoSnippet)
      /\ phase' = Set(phase, p, "try")
      /\ title' = Set(title, p, "")
      /\ UNCHANGED <<variant, useAPI, store, remote, nextId, nextCap, storeFails,
                     request, response,
                     fatalSeen, prevSync>>

\* a slip: the try around the whole loop, so that the first create that throws
\* ends the iteration
SyncCreateAbort(p, ok) ==
  LET o == Head(pending[p])
      index == IndexOf(local[p], o)
  IN  /\ pc[p] = "sync_loop"
      /\ pending[p] # <<>>
      /\ remote' = IF ok THEN remote \cup {[id |-> nextId, cap |-> o.val.cap]}
                   ELSE remote
      /\ nextId' = IF ok THEN nextId + 1 ELSE nextId
      /\ local' = Set(local, p, IF ok
                                THEN SetAt(local[p], index, Obj(0, Created(o.val, nextId)))
                                ELSE local[p])
      /\ log' = Set(log, p, Append(log[p],
                     Call("create", o.obj, o.val, ok, IF ok THEN nextId ELSE 0)))
      /\ pending' = Set(pending, p, IF ok THEN Tail(pending[p]) ELSE <<>>)
      /\ UNCHANGED <<ops, during, title, request, response, variant, useAPI, store, nextCap, pc, op, phase, snippet, arg,
                     selected, outcome, pre, writes, storeErr, storeFails, fatalSeen,
                     prevSync>>

\* a slip: the update inside the loop, one write per iteration
SyncCreatePersistEach(p, ok) ==
  LET o == Head(pending[p])
      index == IndexOf(local[p], o)
      arr == IF ok THEN SetAt(local[p], index, Obj(0, Created(o.val, nextId)))
             ELSE local[p]
  IN  /\ pc[p] = "sync_loop"
      /\ pending[p] # <<>>
      /\ remote' = IF ok THEN remote \cup {[id |-> nextId, cap |-> o.val.cap]}
                   ELSE remote
      /\ nextId' = IF ok THEN nextId + 1 ELSE nextId
      /\ local' = Set(local, p, arr)
      /\ store' = Persisted(arr)
      /\ writes' = Set(writes, p, writes[p] + 1)
      /\ log' = Set(log, p, Append(log[p],
                     Call("create", o.obj, o.val, ok, IF ok THEN nextId ELSE 0)))
      /\ pending' = Set(pending, p, Tail(pending[p]))
      /\ UNCHANGED <<ops, during, title, request, response, variant, useAPI, nextCap, pc, op, phase, snippet, arg,
                     selected, outcome, pre, storeErr, storeFails, fatalSeen,
                     prevSync>>

\* one iteration of the for loop (147-156): api.saveSnippet(snippet) returns
\* and the slot found by indexOf is overwritten, or it throws and is logged
SyncCreate(p, ok) ==
  LET o == Head(pending[p])
      index == IndexOf(local[p], o)
  IN  /\ pc[p] = "sync_loop"
      /\ pending[p] # <<>>
      /\ remote' = IF ok THEN remote \cup {[id |-> nextId, cap |-> o.val.cap]}
                   ELSE remote
      /\ nextId' = IF ok THEN nextId + 1 ELSE nextId
      /\ local' = Set(local, p, IF ok
                                THEN SetAt(local[p], index, Obj(0, Created(o.val, nextId)))
                                ELSE local[p])
      /\ log' = Set(log, p, Append(log[p],
                     Call("create", o.obj, o.val, ok, IF ok THEN nextId ELSE 0)))
      /\ pending' = Set(pending, p, Tail(pending[p]))
      /\ UNCHANGED <<ops, during, title, request, response, variant, useAPI, store, nextCap, pc, op, phase, snippet, arg,
                     selected, outcome, pre, writes, storeErr, storeFails, fatalSeen,
                     prevSync>>

\* what syncCommand shows: the information message once syncWithAPI has
\* resolved (367-369), the error message when it threw (370-372)
SyncOutcome(calls, ok) == IF ok THEN "synced" ELSE "sync-failed"

\* a slip: the ids are written into the sequence as persisted now, and an id
\* that is already there is kept
SyncWriteReread(p, ok) ==
  LET mine(c) == {k \in 1..Len(local[p]) :
                    local[p][k].val.cap = c /\ local[p][k].val.id # 0}
      reread == [k \in 1..Len(store) |->
                   IF store[k].id = 0 /\ mine(store[k].cap) # {}
                   THEN local[p][CHOOSE j \in mine(store[k].cap) : TRUE].val
                   ELSE store[k]]
  IN  /\ pc[p] = "sync_loop"
      /\ pending[p] = <<>>
      /\ ~ok => CanFail
      /\ store' = IF ok THEN reread ELSE store
      /\ writes' = Set(writes, p, writes[p] + 1)
      /\ storeErr' = Set(storeErr, p, storeErr[p] \/ ~ok)
      /\ storeFails' = IF ok THEN storeFails ELSE storeFails + 1
      /\ local' = Set(local, p, <<>>)
      /\ pc' = Set(pc, p, "idle")
      /\ outcome' = Set(outcome, p, SyncOutcome(log[p], ok))
      /\ fatalSeen' = (fatalSeen \/ ~ok)
      /\ prevSync' = IF ok THEN SyncSummary(log[p], reread) ELSE NoSync
      /\ UNCHANGED <<ops, during, title, request, response, variant, useAPI, remote, nextId, nextCap, op, phase, snippet, arg,
                     pending, selected, log, pre>>

\* a slip: what was appended to the slot since the read is written back too
SyncWriteMerge(p, ok) ==
  LET merged == Persisted(local[p]) \o SubSeq(store, Len(local[p]) + 1, Len(store))
  IN  /\ pc[p] = "sync_loop"
      /\ pending[p] = <<>>
      /\ ~ok => CanFail
      /\ store' = IF ok THEN merged ELSE store
      /\ writes' = Set(writes, p, writes[p] + 1)
      /\ storeErr' = Set(storeErr, p, storeErr[p] \/ ~ok)
      /\ storeFails' = IF ok THEN storeFails ELSE storeFails + 1
      /\ local' = Set(local, p, <<>>)
      /\ pc' = Set(pc, p, "idle")
      /\ outcome' = Set(outcome, p, SyncOutcome(log[p], ok))
      /\ fatalSeen' = (fatalSeen \/ ~ok)
      /\ prevSync' = IF ok THEN SyncSummary(log[p], merged) ELSE NoSync
      /\ UNCHANGED <<ops, during, title, request, response, variant, useAPI, remote, nextId, nextCap, op, phase, snippet, arg,
                     pending, selected, log, pre>>

\* after the loop: globalState.update("snippets", localSnippets) (158)
SyncWrite(p, ok) ==
  /\ pc[p] = "sync_loop"
  /\ pending[p] = <<>>
  /\ ~ok => CanFail
  /\ store' = IF ok THEN Persisted(local[p]) ELSE store
  /\ writes' = Set(writes, p, writes[p] + 1)
  /\ storeErr' = Set(storeErr, p, storeErr[p] \/ ~ok)
  /\ storeFails' = IF ok THEN storeFails ELSE storeFails + 1
  /\ local' = Set(local, p, <<>>)
  /\ pc' = Set(pc, p, "idle")
  /\ outcome' = Set(outcome, p, SyncOutcome(log[p], ok))
  /\ fatalSeen' = (fatalSeen \/ ~ok)
  /\ prevSync' = IF ok THEN SyncSummary(log[p], Persisted(local[p])) ELSE NoSync
  /\ UNCHANGED <<ops, during, title, request, response, variant, useAPI, remote, nextId, nextCap, op, phase, snippet, arg,
                 pending, selected, log, pre>>

\* ---- Command 4: snippetly.deleteSnippet ----

\* getLocalSnippets and the empty check (380-385)
DeleteStart(p) ==
  LET arr == GetLocalSnippets(store)
  IN  /\ pc[p] = "idle"
      /\ variant = "api"
      /\ Begin(p, "delete")
      /\ pc' = Set(pc, p, IF Len(arr) = 0 THEN "idle" ELSE "del_pick")
      /\ outcome' = Set(outcome, p, IF Len(arr) = 0 THEN "nothing" ELSE "running")
      /\ local' = Set(local, p, arr)
      /\ selected' = Set(selected, p, NoObj)
      /\ snippet' = Set(snippet, p, NoSnippet)
      /\ arg' = Set(arg, p, NoSnippet)
      /\ prevSync' = NoSync
      /\ phase' = Set(phase, p, "try")
      /\ pending' = Set(pending, p, <<>>)
      /\ title' = Set(title, p, "")
      /\ UNCHANGED <<variant, useAPI, store, remote, nextId, nextCap, storeFails,
                     fatalSeen, request, response>>

\* showQuickPick (394-400): k = 0 is a dismissed pick
DeletePick(p, k) ==
  /\ pc[p] = "del_pick"
  /\ k \in 0..Len(local[p])
  /\ selected' = Set(selected, p, IF k = 0 THEN NoObj ELSE local[p][k])
  /\ pc' = Set(pc, p, IF k = 0 THEN "idle" ELSE "del_confirm")
  /\ outcome' = Set(outcome, p, IF k = 0 THEN "cancelled" ELSE "running")
  /\ local' = Set(local, p, IF k = 0 THEN <<>> ELSE local[p])
  /\ UNCHANGED <<ops, during, title, request, response, variant, useAPI, store, remote, nextId, nextCap, op, phase, snippet,
                 arg, pending, log, pre, writes, storeErr, storeFails, fatalSeen,
                 prevSync>>

\* a slip: the id check left out
DeleteCallsRemoteAnyId(api, s) == api

\* the remote delete is made only when useAPI is on and the snippet has an id (415)
DeleteCallsRemote(api, s) == api /\ s.id # 0

\* the confirmation (402-408), then indexOf, splice and update (410-412)
DeleteConfirm(p, yes, ok) ==
  LET arr == Splice(local[p], IndexOf(local[p], selected[p]))
      more == yes /\ ok /\ DeleteCallsRemote(useAPI, selected[p].val)
  IN  /\ pc[p] = "del_confirm"
      /\ ~yes => ok
      /\ (yes /\ ~ok) => CanFail
      /\ store' = IF yes /\ ok THEN Persisted(arr) ELSE store
      /\ writes' = Set(writes, p, IF yes THEN writes[p] + 1 ELSE writes[p])
      /\ storeErr' = Set(storeErr, p, storeErr[p] \/ ~ok)
      /\ storeFails' = IF ok THEN storeFails ELSE storeFails + 1
      /\ local' = Set(local, p, <<>>)
      /\ pc' = Set(pc, p, IF more THEN "del_remote" ELSE "idle")
      /\ outcome' = Set(outcome, p, IF ~yes THEN "cancelled"
                                    ELSE IF ~ok THEN "fatal"
                                    ELSE IF more THEN "running" ELSE "deleted")
      /\ fatalSeen' = (fatalSeen \/ ~ok)
      /\ UNCHANGED <<ops, during, title, request, response, variant, useAPI, remote, nextId, nextCap, op, phase, snippet, arg,
                     pending, selected, log, pre, prevSync>>

\* api.deleteSnippet(id) returns, or throws and is logged (416-420)
DeleteRemote(p, ok) ==
  /\ pc[p] = "del_remote"
  /\ remote' = IF ok THEN {r \in remote : r.id # selected[p].val.id} ELSE remote
  /\ log' = Set(log, p, Append(log[p],
                 Call("delete", selected[p].obj, selected[p].val, ok, selected[p].val.id)))
  /\ pc' = Set(pc, p, "idle")
  /\ outcome' = Set(outcome, p, "deleted")
  /\ UNCHANGED <<ops, during, title, request, response, variant, useAPI, store, nextId, nextCap, op, phase, snippet, arg,
                 local, pending, selected, pre, writes, storeErr, storeFails,
                 fatalSeen, prevSync>>

\* ---- makeRequest ----
\* JSON.parse on the response bodies of the model: the value, or "throws"
JsonParse(t) ==
  CASE t = "{\"id\":4}" -> [throws |-> FALSE, value |-> JsonObject(4)]
    [] t = "7" -> [throws |-> FALSE, value |-> JsonNumber(7)]
    [] OTHER -> [throws |-> TRUE, value |-> Null]

\* a slip: the upper end of the success range is included
ClassifyUpTo300(status, responseData) ==
  IF status # 0 /\ status >= StatusOk /\ status <= StatusRedirect
    THEN IF responseData = ""
           THEN [settled |-> "resolved", value |-> Null]
           ELSE IF JsonParse(responseData).throws
                  THEN [settled |-> "resolved", value |-> Text(responseData)]
                  ELSE [settled |-> "resolved", value |-> JsonParse(responseData).value]
    ELSE [settled |-> "rejected", value |-> Failure(status, responseData)]

\* the "end" handler of the response
Classify(status, responseData) ==
  IF status # 0 /\ status >= StatusOk /\ status < StatusRedirect
    THEN IF responseData = ""
           THEN [settled |-> "resolved", value |-> Null]
           ELSE IF JsonParse(responseData).throws
                  THEN [settled |-> "resolved", value |-> Text(responseData)]
                  ELSE [settled |-> "resolved", value |-> JsonParse(responseData).value]
    ELSE [settled |-> "rejected", value |-> Failure(status, responseData)]

\* the response has ended: the promise resolves or rejects by status
ResponseEnd ==
  /\ response.settled = "none"
  /\ ~request.fails
  /\ response' = Classify(request.status, request.body)
  /\ UNCHANGED <<variant, useAPI, store, remote, nextId, nextCap, pc, op,
                 phase, snippet, arg, local, pending, selected, outcome, log,
                 pre, writes, storeErr, storeFails, fatalSeen, prevSync, ops,
                 during, title, request>>

\* the request emits "error": the promise rejects
RequestError ==
  /\ response.settled = "none"
  /\ request.fails
  /\ response' = [settled |-> "rejected", value |-> Failure(0, "")]
  /\ UNCHANGED <<variant, useAPI, store, remote, nextId, nextCap, pc, op,
                 phase, snippet, arg, local, pending, selected, outcome, log,
                 pre, writes, storeErr, storeFails, fatalSeen, prevSync, ops,
                 during, title, request>>

\* one call of makeRequest, for every response of the transport
InitRequest ==
  /\ variant = "api"
  /\ useAPI = TRUE
  /\ store = <<>>
  /\ remote = {}
  /\ nextId = InitLen + 1
  /\ nextCap = InitLen + 1
  /\ NoCommand
  /\ ops = 0
  /\ request \in [fails : BOOLEAN, status : Statuses, body : Bodies]
  /\ response = NoResponse

NextRequest == ResponseEnd \/ RequestError

SpecRequest == InitRequest /\ [][NextRequest]_vars

\* ---- the extension, one command at a time ----
Next ==
  \/ \E p \in SerialProcs, t \in TitleInputs : SaveStart(p, t)
  \/ \E p \in SerialProcs, ok \in BOOLEAN : SaveCreate(p, ok)
  \/ \E p \in SerialProcs, ok \in BOOLEAN : SaveWrite(p, ok)
  \/ \E p \in SerialProcs, ok \in BOOLEAN : BasicWrite(p, ok)
  \/ \E p \in SerialProcs : SearchStart(p)
  \/ \E p \in SerialProcs, ok \in BOOLEAN : SearchRemote(p, ok)
  \/ \E p \in SerialProcs : SyncStart(p)
  \/ \E p \in SerialProcs, ok \in BOOLEAN : SyncCreate(p, ok)
  \/ \E p \in SerialProcs, ok \in BOOLEAN : SyncWrite(p, ok)
  \/ \E p \in SerialProcs : DeleteStart(p)
  \/ \E p \in SerialProcs, k \in 0..(InitLen + MaxOps) : DeletePick(p, k)
  \/ \E p \in SerialProcs, yes \in BOOLEAN, ok \in BOOLEAN : DeleteConfirm(p, yes, ok)
  \/ \E p \in SerialProcs, ok \in BOOLEAN : DeleteRemote(p, ok)

Spec == Init /\ [][Next]_vars

\* ---- saves and syncs invoked while another command is suspended ----
InitConc ==
  /\ variant = "api"
  /\ useAPI = TRUE
  /\ Stores
  /\ NoCommand
  /\ ops = 0
  /\ request = NoRequest
  /\ response = NoResponse

NextConc ==
  \/ \E p \in Procs, t \in TitleInputs : SaveStart(p, t)
  \/ \E p \in Procs, ok \in BOOLEAN : SaveCreate(p, ok)
  \/ \E p \in Procs, ok \in BOOLEAN : SaveWrite(p, ok)
  \/ \E p \in Procs : SyncStart(p)
  \/ \E p \in Procs, ok \in BOOLEAN : SyncCreate(p, ok)
  \/ \E p \in Procs, ok \in BOOLEAN : SyncWrite(p, ok)

SpecConc == InitConc /\ [][NextConc]_vars

\* ---- the user syncs again and again ----
InitLive ==
  /\ variant = "api"
  /\ useAPI = TRUE
  /\ Stores
  /\ NoCommand
  /\ ops = -1
  /\ request = NoRequest
  /\ response = NoResponse

\* the create call for the snippet of capture c returns
SyncCreated(c) ==
  \E p \in SerialProcs :
    /\ pending[p] # <<>>
    /\ Head(pending[p]).val.cap = c
    /\ SyncCreate(p, TRUE)

\* a remote call, and a write of the slot, settles
Settle ==
  \E p \in SerialProcs, ok \in BOOLEAN : SyncCreate(p, ok) \/ SyncWrite(p, ok)

\* the user invokes snippetly.syncSnippets
Resync == \E p \in SerialProcs : SyncStart(p)

NextLive == Resync \/ Settle

\* sync is invoked again whenever it has returned, every awaited call
\* settles, and the create of a snippet that is submitted again and again
\* succeeds at some time
SpecLive ==
  /\ InitLive
  /\ [][NextLive]_vars
  /\ WF_vars(Resync)
  /\ WF_vars(Settle)
  /\ \A c \in 1..InitLen : SF_vars(SyncCreated(c))


\* ---- what the formulas talk about ----

\* command `name` of invocation p has returned to its caller
Returned(p, name) == pc[p] = "idle" /\ op[p] = name

\* ... without raising an error
Completed(p, name) ==
  Returned(p, name) /\ outcome[p] \notin {"fatal", "sync-failed", "cancelled"}

\* the positions of the create calls made for slot k of the array that was read
CreatesFor(p, k) ==
  {j \in 1..Len(log[p]) : log[p][j].call = "create" /\ log[p][j].obj = k}

\* the remote service holds a record made from the capture of snippet s
KnownRemotely(s) == \E r \in remote : r.cap = s.cap

\* seq without its k-th element
Without(seq, k) == [j \in 1..(Len(seq) - 1) |-> IF j < k THEN seq[j] ELSE seq[j + 1]]

\* C1. Partial-failure isolation in sync: once a sync has persisted its result,
\* every snippet that was pending when it started has had exactly one create
\* call, whatever the earlier calls returned; a slot whose create succeeded
\* holds the snippet with the id the server assigned, a slot whose create
\* failed holds the snippet unchanged and without id, and the sequence is as
\* long as before.
PartialFailureIsolation ==
  \A p \in Procs :
    (Returned(p, "sync") /\ outcome[p] = "synced") =>
      /\ Len(store) = Len(pre[p])
      /\ \A k \in 1..Len(pre[p]) :
           pre[p][k].id = 0 =>
             /\ Cardinality(CreatesFor(p, k)) = 1
             /\ \A j \in CreatesFor(p, k) :
                  /\ log[p][j].cap = pre[p][k].cap
                  /\ log[p][j].ok =>
                       /\ log[p][j].rid # 0
                       /\ k <= Len(store)
                       /\ store[k] = Created(pre[p][k], log[p][j].rid)
                  /\ ~log[p][j].ok => (k <= Len(store) /\ store[k] = pre[p][k])

\* C1 witness: three pending snippets, the second create failed, the first and
\* the third succeeded, and the sync has persisted.
PartialFailureWitness ==
  /\ Returned(1, "sync")
  /\ outcome[1] = "synced"
  /\ Len(log[1]) = 3
  /\ log[1][1].ok /\ ~log[1][2].ok /\ log[1][3].ok
  /\ Len(store) = 3
  /\ store[1].id # 0 /\ store[2].id = 0 /\ store[3].id # 0

\* C2. Save in remote-enabled mode with the remote create failing: the failed
\* create by itself raises no error (the save raises one exactly when a write
\* of the Local Store was rejected), and a save that does not raise ends in
\* saved-local-fallback with the original snippet, without id, appended to the
\* persisted sequence.
SaveFallback ==
  \A p \in Procs :
    (Returned(p, "save") /\ log[p] # <<>> /\ ~log[p][1].ok) =>
      /\ useAPI
      /\ outcome[p] = "fatal" <=> storeErr[p]
      /\ outcome[p] # "fatal" =>
           /\ outcome[p] = "saved-local-fallback"
           /\ snippet[p].id = 0
           /\ store = Append(pre[p], snippet[p])

\* C2 witness: a save whose create failed has ended in saved-local-fallback
\* on a sequence that was not empty.
SaveFallbackWitness ==
  /\ Returned(1, "save")
  /\ Len(log[1]) = 1 /\ ~log[1][1].ok
  /\ outcome[1] = "saved-local-fallback"
  /\ Len(pre[1]) > 0
  /\ store = Append(pre[1], snippet[1])

\* C3. Save in remote-enabled mode with the remote create succeeding: a save
\* that returns without raising has appended exactly one element, the
\* representation the create returned, with the id the remote assigned.
SaveRemoteKeepsId ==
  \A p \in Procs :
    (Returned(p, "save") /\ log[p] # <<>> /\ log[p][1].ok /\ outcome[p] # "fatal") =>
      /\ log[p][1].rid # 0
      /\ store = Append(pre[p], Created(snippet[p], log[p][1].rid))

\* C4. Save in local-only mode: a save that returns without raising leaves the
\* prior sequence with exactly one element appended at its end, the captured
\* snippet without id, and has made no remote call.
SaveLocalOnly ==
  \A p \in Procs :
    (Completed(p, "save") /\ ~useAPI) =>
      /\ snippet[p].id = 0
      /\ store = Append(pre[p], snippet[p])
      /\ log[p] = <<>>

\* C4 witness: a local-only save of the full extension has appended to a
\* sequence that was not empty.
SaveLocalOnlyWitness ==
  /\ Completed(1, "save")
  /\ ~useAPI /\ variant = "api"
  /\ Len(pre[1]) > 0
  /\ outcome[1] = "saved-local"
  /\ store = Append(pre[1], snippet[1])


\* the captures submitted by the create calls of the current command
CreatedCaps(p) ==
  {log[p][j].cap : j \in {i \in 1..Len(log[p]) : log[p][i].call = "create"}}

\* the loop of a sync is over and its result is about to be persisted
SyncLoopDone(p) == pc[p] = "sync_loop" /\ pending[p] = <<>>

\* C5. Sync idempotence: every snippet a sync submits to create is without id;
\* and when a sync follows a sync that persisted its result, with no other
\* command between them, it submits exactly the snippets the first one left
\* without id, each once: none when every create of the first one succeeded.
SyncIdempotent ==
  \A p \in Procs :
    /\ op[p] = "sync" =>
         \A j \in 1..Len(log[p]) : log[p][j].call = "create" /\ log[p][j].sid = 0
    /\ (SyncLoopDone(p) /\ prevSync.ran) =>
         /\ CreatedCaps(p) = prevSync.left
         /\ Len(log[p]) = Cardinality(prevSync.left)
         /\ prevSync.allOk => log[p] = <<>>

\* C5 witness: the second of two syncs in succession has finished its loop;
\* the first one had a create that succeeded and one that failed, and the
\* second one has called create for what was left.
SyncIdempotentWitness ==
  /\ SyncLoopDone(1)
  /\ prevSync.ran /\ ~prevSync.allOk
  /\ Len(log[1]) = 1
  /\ \E k \in 1..Len(pre[1]) : pre[1][k].id > InitLen
  /\ \E k \in 1..Len(pre[1]) : pre[1][k].id # 0 /\ pre[1][k].id <= InitLen

\* C6. No remote duplication on retry: as long as no command has raised an
\* error, the remote store holds at most one record made from any one
\* captured snippet.
NoRemoteDuplicate ==
  ~fatalSeen =>
    \A r1 \in remote : \A r2 \in remote : r1.cap = r2.cap => r1 = r2

\* C7 as claimed. Deletion: a delete that has removed the entry has made no
\* remote call when the snippet has no id, and exactly one remote delete(id)
\* when it has one; exactly the selected entry is gone from the persisted
\* sequence, whatever the remote delete returned.
DeleteAsClaimed ==
  \A p \in Procs :
    (Returned(p, "delete") /\ outcome[p] = "deleted") =>
      /\ store = Without(pre[p], selected[p].obj)
      /\ selected[p].val.id = 0 => log[p] = <<>>
      /\ selected[p].val.id # 0 =>
           /\ Len(log[p]) = 1
           /\ log[p][1].call = "delete"
           /\ log[p][1].rid = selected[p].val.id

\* C7 amended. Deletion: deleting a snippet with no id, or any snippet in
\* local-only mode, makes no remote call; in remote-enabled mode deleting a
\* snippet with an id makes exactly one remote delete(id); the entry is removed
\* from the persisted sequence before the remote call and stays removed whether
\* that call succeeds or fails; exactly the selected entry is removed.
DeleteRemovesLocally ==
  \A p \in Procs :
    /\ (Returned(p, "delete") /\ outcome[p] = "deleted") =>
         /\ store = Without(pre[p], selected[p].obj)
         /\ (selected[p].val.id = 0 \/ ~useAPI) => log[p] = <<>>
         /\ (selected[p].val.id # 0 /\ useAPI) =>
              /\ Len(log[p]) = 1
              /\ log[p][1].call = "delete"
              /\ log[p][1].rid = selected[p].val.id
    /\ pc[p] = "del_remote" =>
         /\ store = Without(pre[p], selected[p].obj)
         /\ selected[p].val.id # 0 /\ useAPI

\* C7 witness: a snippet with an id was deleted from between two others, the
\* remote delete failed, and the entry is gone.
DeleteWitness ==
  /\ Returned(1, "delete")
  /\ outcome[1] = "deleted"
  /\ Len(log[1]) = 1 /\ ~log[1][1].ok
  /\ Len(pre[1]) = 3 /\ selected[1].obj = 2
  /\ store = <<pre[1][1], pre[1][3]>>

\* C8. Identity invariant: between commands, as long as no command has raised
\* an error, an entry of the persisted sequence has an id exactly when the
\* remote store holds a record made from that snippet.
IdentityInvariant ==
  ((\A p \in Procs : pc[p] = "idle") /\ ~fatalSeen) =>
    \A k \in 1..Len(store) : store[k].id # 0 <=> KnownRemotely(store[k])

\* C9. A Local Store failure during save is fatal: a save in which a write of
\* the persisted sequence was rejected has raised the error to its caller and
\* has made that one write only.
LocalFailureFatal ==
  \A p \in Procs :
    (Returned(p, "save") /\ storeErr[p]) =>
      /\ outcome[p] = "fatal"
      /\ writes[p] = 1

\* C10. Sync outcome reporting: a sync in which a create failed does not
\* report what a sync reports in which every create succeeded.
SyncReportsFailures ==
  \A p \in Procs :
    (Returned(p, "sync") /\ \E j \in 1..Len(log[p]) : ~log[p][j].ok) =>
      outcome[p] # SyncOutcome(<<>>, TRUE)


\* C11. Save outcomes are tied to their cause: a save reports
\* saved-remote-and-local only when its create succeeded and the returned
\* representation was appended, saved-local-fallback only in remote-enabled
\* mode after its create failed, and in local-only mode a save that returns
\* without raising reports saved-local.
SaveOutcomesTiedToCause ==
  \A p \in Procs :
    Returned(p, "save") =>
      /\ outcome[p] = "saved-remote-and-local" =>
           /\ log[p] # <<>> /\ log[p][1].ok
           /\ store = Append(pre[p], Created(snippet[p], log[p][1].rid))
      /\ outcome[p] = "saved-local-fallback" =>
           (useAPI /\ log[p] # <<>> /\ ~log[p][1].ok)
      /\ (~useAPI /\ outcome[p] \notin {"cancelled", "fatal"}) =>
           outcome[p] = "saved-local"

\* C12. Insertion order is preserved: the persisted sequence lists the
\* snippets in the order of their capture, whatever saves, syncs and deletes
\* have run.
InsertionOrder ==
  \A i \in 1..Len(store) : \A j \in 1..Len(store) :
    i < j => store[i].cap < store[j].cap

\* C12 witness: a sync has given an id to an entry that is followed by a
\* snippet saved after activation.
InsertionOrderWitness ==
  /\ Returned(1, "sync")
  /\ outcome[1] = "synced"
  /\ Len(store) >= 2
  /\ store[Len(store)].cap > InitLen
  /\ \E k \in 1..(Len(store) - 1) : store[k].id > InitLen

\* C13. Local-only mode makes no remote call: with useAPI off no command has
\* made or is waiting for a remote create, search or delete.
NoRemoteInLocalOnly ==
  ~useAPI =>
    \A p \in Procs :
      /\ log[p] = <<>>
      /\ pc[p] \notin {"save_create", "search_remote", "del_remote"}

\* C13 witness: in local-only mode an entry that carries an id has been
\* deleted from the persisted sequence.
NoRemoteInLocalOnlyWitness ==
  /\ ~useAPI
  /\ Returned(1, "delete")
  /\ outcome[1] = "deleted"
  /\ selected[1].val.id # 0
  /\ store = Without(pre[1], selected[1].obj)

\* C14. Validation before persistence: a save whose title box returned nothing
\* or the empty string has ended at once, with no remote call, no write and
\* the persisted sequence unchanged.
ValidationBeforePersistence ==
  \A p \in Procs :
    (op[p] = "save" /\ title[p] = "") =>
      /\ pc[p] = "idle"
      /\ outcome[p] = "cancelled"
      /\ log[p] = <<>>
      /\ writes[p] = 0
      /\ store = pre[p]

\* C14 witness: a save without title has returned on a sequence that is not
\* empty.
ValidationWitness ==
  /\ Returned(1, "save")
  /\ title[1] = ""
  /\ outcome[1] = "cancelled"
  /\ Len(store) > 0

\* C15. Outcome of a remote request: a settled request has resolved exactly
\* when the transport did not fail and the status is in 200..299; every other
\* status and every transport failure has rejected; a resolved request with
\* an empty body carries the absent value.
RequestClassification ==
  response.settled # "none" =>
    /\ response.settled = "resolved" <=>
         (~request.fails /\ request.status \in 200..299)
    /\ response.settled = "rejected" <=>
         (request.fails \/ request.status \notin 200..299)
    /\ (response.settled = "resolved" /\ request.body = "") =>
         response.value = Null
    /\ response.settled = "resolved" => response.value.kind # "error"

\* C15 witness: a 204 response without body has resolved with the absent
\* value.
RequestClassificationWitness ==
  /\ ~request.fails
  /\ request.status = 204
  /\ request.body = ""
  /\ response = [settled |-> "resolved", value |-> Null]

\* the slot of seq that holds its j-th snippet without id
PendingSlot(seq, j) ==
  CHOOSE k \in 1..Len(seq) :
    /\ seq[k].id = 0
    /\ Cardinality({i \in 1..(k - 1) : seq[i].id = 0}) = j - 1

\* the number of snippets without id in seq
PendingCount(seq) == Cardinality({k \in 1..Len(seq) : seq[k].id = 0})

\* C17. Sync protocol order: a sync works on the sequence it read at its
\* start; its create calls are, in order and one each, for the snippets
\* without id of that sequence; it writes nothing while calls remain, and when
\* it has returned it has made all the calls and written exactly once.
SyncProtocolOrder ==
  \A p \in Procs :
    (op[p] = "sync" /\ outcome[p] # "sync-disabled") =>
      /\ Len(log[p]) <= PendingCount(pre[p])
      /\ \A j \in 1..Len(log[p]) :
           /\ log[p][j].call = "create"
           /\ log[p][j].obj = PendingSlot(pre[p], j)
           /\ log[p][j].cap = pre[p][PendingSlot(pre[p], j)].cap
      /\ pc[p] = "sync_loop" =>
           /\ writes[p] = 0
           /\ store = pre[p]
           /\ Len(log[p]) + Len(pending[p]) = PendingCount(pre[p])
      /\ pc[p] = "idle" =>
           /\ writes[p] = 1
           /\ Len(log[p]) = PendingCount(pre[p])
           /\ Len(store) = Len(pre[p])

\* C17 witness: a sync of two pending snippets has returned after both
\* creates failed, having written the unchanged sequence once.
SyncProtocolWitness ==
  /\ Returned(1, "sync")
  /\ outcome[1] = "synced"
  /\ Len(log[1]) = 2
  /\ \A j \in 1..2 : ~log[1][j].ok
  /\ writes[1] = 1
  /\ store = pre[1]

\* C17: also a sync without pending snippets writes once.
SyncProtocolEmptyWitness ==
  /\ Returned(1, "sync")
  /\ outcome[1] = "synced"
  /\ log[1] = <<>>
  /\ writes[1] = 1
  /\ Len(store) > 0

\* the sequence a sync holds in memory, or has persisted
SyncResult(p) == IF pc[p] = "sync_loop" THEN Persisted(local[p]) ELSE store

\* C18. Slot attribution in sync: at every point of a sync, and in what it
\* persists, a slot holds the server's representation of its own snippet if
\* the create submitted for that slot succeeded, and otherwise the snippet as
\* it was read; in particular entries that had an id are unchanged, and a
\* response never lands in the slot of another snippet of the same content.
SlotAttribution ==
  \A p \in Procs :
    (op[p] = "sync" /\ (pc[p] = "sync_loop" \/ outcome[p] = "synced")) =>
      /\ Len(SyncResult(p)) = Len(pre[p])
      /\ \A k \in 1..Len(pre[p]) :
           LET done == {j \in CreatesFor(p, k) : log[p][j].ok}
           IN  /\ pre[p][k].id # 0 =>
                    (CreatesFor(p, k) = {} /\ SyncResult(p)[k] = pre[p][k])
               /\ done = {} => SyncResult(p)[k] = pre[p][k]
               /\ \A j \in done :
                    SyncResult(p)[k] = Created(pre[p][k], log[p][j].rid)

\* C18 witness: two pending snippets of the same title around an entry with
\* id; the create of the first failed, the create of the second succeeded, and
\* the persisted sequence has the new id in the third slot only.
SlotAttributionWitness ==
  /\ Returned(1, "sync")
  /\ outcome[1] = "synced"
  /\ Len(pre[1]) = 3
  /\ pre[1][1].id = 0 /\ pre[1][2].id # 0 /\ pre[1][3].id = 0
  /\ pre[1][1].title = pre[1][3].title
  /\ Len(log[1]) = 2
  /\ ~log[1][1].ok /\ log[1][2].ok
  /\ store = <<pre[1][1], pre[1][2], Created(pre[1][3], log[1][2].rid)>>

\* the captures held by seq
Caps(seq) == {seq[k].cap : k \in 1..Len(seq)}

\* this step is the update of sync q, and it resolves
SyncPersists(q) ==
  /\ op[q] = "sync"
  /\ pc[q] = "sync_loop"
  /\ pc'[q] = "idle"
  /\ outcome'[q] = "synced"

\* C16 as claimed. Lost-update freedom: a snippet appended to the persisted
\* sequence after a sync read it and before that sync persists is still in the
\* persisted sequence when the sync has persisted.
NoLostUpdate ==
  [][\A q \in Procs :
       SyncPersists(q) =>
         \A k \in 1..Len(store) :
           store[k].cap \notin Caps(pre[q]) => store[k].cap \in Caps(store')]_vars

\* C16. What a sync persists is the sequence it read at its start, slot by
\* slot, with the ids of its successful creates: a snippet that a save
\* appended between the read and the update of the sync is not in the
\* persisted sequence after that update.
SyncPersistsWhatItRead ==
  [][\A q \in Procs :
       SyncPersists(q) =>
         /\ Len(store') = Len(pre[q])
         /\ \A k \in 1..Len(pre[q]) :
              /\ store'[k].cap = pre[q][k].cap
              /\ store'[k].title = pre[q][k].title
              /\ pre[q][k].id # 0 => store'[k].id = pre[q][k].id
         /\ \A k \in 1..Len(store) :
              store[k].cap \notin Caps(pre[q]) => store[k].cap \notin Caps(store')]_vars

\* C16 witness: a save invoked while a sync was suspended has returned after
\* a successful create and append, the sync has persisted, and the snippet of
\* the save is not in the persisted sequence.
LostUpdateWitness ==
  /\ Returned(1, "sync")
  /\ outcome[1] = "synced"
  /\ Returned(2, "save")
  /\ outcome[2] = "saved-remote-and-local"
  /\ 1 \in during[2]
  /\ snippet[2].cap \notin Caps(store)
  /\ KnownRemotely(snippet[2])

\* sync q was invoked while sync p was suspended, before p persisted
Overlap(p, q) == op[p] = "sync" /\ op[q] = "sync" /\ p \in during[q]

\* the successful create calls of sync p
Succeeded(p) == {j \in 1..Len(log[p]) : log[p][j].ok}

\* C19 as claimed. Overlapping syncs: no snippet is submitted to the remote
\* create by both of two overlapping syncs, and when both have persisted
\* every snippet whose create succeeded carries an id in the persisted
\* sequence.
OverlappingSyncsDisjoint ==
  \A p \in Procs : \A q \in Procs :
    Overlap(p, q) =>
      /\ \A i \in 1..Len(log[p]) : \A j \in 1..Len(log[q]) :
           log[p][i].cap # log[q][j].cap
      /\ (outcome[p] = "synced" /\ outcome[q] = "synced") =>
           \A r \in {p, q} : \A j \in Succeeded(r) :
             \E k \in 1..Len(store) :
               store[k].cap = log[r][j].cap /\ store[k].id # 0

\* C19. Each sync works from its own read alone: when it persists it has
\* submitted every snippet that was without id in the sequence it read, once,
\* whether or not an overlapping sync submits it too, and every slot it
\* persists holds the id of its own successful create or, if its own create
\* failed, no id, whatever the creates of the other sync returned.
SyncsIgnoreEachOther ==
  [][\A q \in Procs :
       SyncPersists(q) =>
         /\ Len(log[q]) = PendingCount(pre[q])
         /\ {log[q][j].cap : j \in 1..Len(log[q])} =
              {pre[q][k].cap : k \in {i \in 1..Len(pre[q]) : pre[q][i].id = 0}}
         /\ Len(store') = Len(pre[q])
         /\ \A k \in 1..Len(pre[q]) :
              LET done == {j \in CreatesFor(q, k) : log[q][j].ok}
              IN  /\ done = {} => store'[k] = pre[q][k]
                  /\ \A j \in done : store'[k] = Created(pre[q][k], log[q][j].rid)]_vars

\* C19 witness: two overlapping syncs have persisted; both submitted the same
\* snippet, the create of the first succeeded and the create of the second
\* failed, and the persisted sequence holds that snippet without id although
\* the remote service has a record of it.
OverlappingSyncsWitness ==
  /\ Overlap(1, 2)
  /\ Returned(1, "sync") /\ outcome[1] = "synced"
  /\ Returned(2, "sync") /\ outcome[2] = "synced"
  /\ \E i \in Succeeded(1) : \E j \in 1..Len(log[2]) :
       /\ log[2][j].cap = log[1][i].cap
       /\ ~log[2][j].ok
       /\ \E k \in 1..Len(store) :
            /\ store[k].cap = log[1][i].cap
            /\ store[k].id = 0
            /\ KnownRemotely(store[k])

\* C20. Convergence of manual re-sync: with sync invoked again and again, one
\* invocation at a time, and every pending snippet's create succeeding at some
\* time, from some point on every element of the persisted sequence has an id
\* and no sync makes a create call.
ResyncConverges ==
  <>[](/\ \A k \in 1..Len(store) : store[k].id # 0
       /\ \A p \in SerialProcs : log[p] = <<>> /\ pending[p] = <<>>)

\* C20 witness: a sync that made no create call has returned on a sequence
\* of which every element has an id, one of them assigned by an earlier sync
\* of this session whose write was rejected once.
ResyncWitness ==
  /\ Returned(1, "sync")
  /\ outcome[1] = "synced"
  /\ log[1] = <<>>
  /\ Len(store) >= 2
  /\ \A k \in 1..Len(store) : store[k].id # 0
  /\ \E k \in 1..Len(store) : store[k].id > InitLen
  /\ storeFails > 0

====
